---- MODULE Spec2Model ----
(***************************************************************************)
(* A model of font_test: src/src/main.rs (device setup, the text payload   *)
(* packer, the frame loop and its draw calls) and src/src/fonts.rs (the    *)
(* font sheet loader).  main is one sequential program; pc is its          *)
(* position.  Byte strings are sequences of integers 0..255.               *)
(***************************************************************************)
EXTENDS Integers, Sequences, FiniteSets, TLC

(***************************************************************************)
(* Bounds of the model.                                                    *)
(***************************************************************************)
\* Largest cell size (in pixels) of the sheet that replaces one entry of
\* font_data: its sides range over 1 .. 16 * MaxCell + 1.
MaxCell == 2
\* Number of text items built by the loop `for _ in 0..100`.
NumStrings == 2
\* Number of frames the unbounded loop `for frame in 0u64..` is followed.
MaxFrames == 2
\* Longest message of letters handed to the packer.
MaxLen == 4
\* Most messages handed to the packer at once.
MaxItems == 3
\* Number of frames the loop is followed when only the frame loop is run.
MaxWindowFrames == 130
\* The frames, from the first, at whose end the clock may read the same
\* time as at the end of the frame before.
JitterFrames == 3

(***************************************************************************)
(* Program constants.                                                      *)
(***************************************************************************)
WIDTH == 1440
HEIGHT == 900
\* The ten variants of FontSize, `#[repr(usize)]`: discriminants 0 .. 9.
NumFontSizes == 10
\* The most entries of frame_times before a push: `while len >= 128`.
WindowSize == 128
\* The FPS report is printed when `frame % 128 == 0`.
ReportEvery == 128
\* The low 31 bits of `!3usize` (every integer of the model is below 2^31).
Not3 == 2147483644

(***************************************************************************)
(* Integer conversions.                                                    *)
(***************************************************************************)
\* `x as u32` of a non-negative x: x mod 2^32, computed on 16-bit halves.
AsU32(x) == ((x \div 65536) % 65536) * 65536 + (x % 65536)

RECURSIVE F32Shift(_)
\* The number of low bits a u32 loses when rounded to a 24-bit significand.
F32Shift(x) == IF x < 16777216 THEN 0 ELSE 1 + F32Shift(x \div 2)

RECURSIVE Pow2(_)
Pow2(n) == IF n = 0 THEN 1 ELSE 2 * Pow2(n - 1)

\* `x as f32` of a u32: round to nearest, ties to even, on 24 bits.
AsF32(x) ==
    LET s    == F32Shift(x)
        unit == Pow2(s)
        q    == x \div unit
        r    == x % unit
        up   == s > 0 /\ (2 * r > unit \/ (2 * r = unit /\ q % 2 = 1))
    IN  (IF up THEN q + 1 ELSE q) * unit

RECURSIVE BitAnd(_, _)
\* a & b on non-negative integers.
BitAnd(a, b) ==
    IF a = 0 \/ b = 0 THEN 0
    ELSE (a % 2) * (b % 2) + 2 * BitAnd(a \div 2, b \div 2)

(***************************************************************************)
(* Vec operations.                                                         *)
(***************************************************************************)
\* v.extend_from_slice(s)
ExtendFromSlice(v, s) == v \o s

\* v.resize(n, x): truncate to n, or fill up to n with x.
Resize(v, n, x) ==
    IF n <= Len(v) THEN SubSeq(v, 1, n)
    ELSE v \o [k \in 1..(n - Len(v)) |-> x]

\* v[idx] with idx: usize: the element, or the bounds-check panic.
VecIndex(v, idx) ==
    IF idx < Len(v) THEN [ok |-> TRUE, val |-> v[idx + 1]] ELSE [ok |-> FALSE]

(***************************************************************************)
(* PushConstants and its layout.                                           *)
(***************************************************************************)
\* The fields of `#[repr(C)] struct PushConstants`, in declaration order:
\* rgba (f32, f32, f32, f32), xy (f32, f32), offset u32.
PushConstantsFields ==
    << [name |-> "rgba",   size |-> 4 * 4, align |-> 4],
       [name |-> "xy",     size |-> 2 * 4, align |-> 4],
       [name |-> "offset", size |-> 4,     align |-> 4] >>

AlignTo(n, a) == ((n + a - 1) \div a) * a

RECURSIVE FieldsEnd(_, _)
\* The end of the last of the first n fields, each placed at the next
\* multiple of its alignment.
FieldsEnd(fields, n) ==
    IF n = 0 THEN 0
    ELSE AlignTo(FieldsEnd(fields, n - 1), fields[n].align) + fields[n].size

RECURSIVE MaxAlign(_, _)
MaxAlign(fields, n) ==
    IF n = 0 THEN 1
    ELSE LET m == MaxAlign(fields, n - 1)
         IN  IF fields[n].align > m THEN fields[n].align ELSE m

\* The struct rounded up to 16 bytes, as a vec4-aligned layout would be.
SizeOfPushConstantsVec4Aligned ==
    AlignTo(FieldsEnd(PushConstantsFields, Len(PushConstantsFields)), 16)

\* size_of::<PushConstants>(): the end of the last field, rounded up to the
\* struct's alignment.
SizeOfPushConstants ==
    AlignTo(FieldsEnd(PushConstantsFields, Len(PushConstantsFields)),
            MaxAlign(PushConstantsFields, Len(PushConstantsFields)))

(***************************************************************************)
(* Inputs: font sheets and messages.                                       *)
(***************************************************************************)
Sheet(w, h) == [ok |-> TRUE, w |-> w, h |-> h]

\* Bytes that `image::load_from_memory` cannot decode.
Undecodable == [ok |-> FALSE, w |-> 0, h |-> 0]

\* The ten sheets of font_data, in order, with the sizes their names give:
\* a sheet of 16 x 16 cells of 4x6, 6x8, ... 24x36 pixels.
NominalSheets ==
    << Sheet(64, 96),   Sheet(96, 128),  Sheet(96, 160),  Sheet(128, 192),
       Sheet(128, 224), Sheet(128, 240), Sheet(128, 256), Sheet(192, 320),
       Sheet(256, 384), Sheet(384, 576) >>

SheetSides == 1..(16 * MaxCell + 1)

OtherSheets == {Sheet(w, h) : w \in SheetSides, h \in SheetSides} \cup {Undecodable}

\* load_fonts rejects the sheet.
Rejected(s) == ~(s.ok /\ s.w % 16 = 0 /\ s.h % 16 = 0)

\* The inputs of load_fonts: the nominal sheets, or those with one replaced:
\* any sheet by one load_fonts rejects, the first or the last by any sheet.
IsFontDataInput(data) ==
    \E k \in 1..NumFontSizes : \E s \in OtherSheets \cup {NominalSheets[k]} :
        /\ k \in {1, NumFontSizes} \/ Rejected(s) \/ s = NominalSheets[k]
        /\ data = [NominalSheets EXCEPT ![k] = s]

HelloWorld == <<72, 101, 108, 108, 111, 32, 119, 111, 114, 108, 100>>
Hi == <<104, 105>>
World == <<119, 111, 114, 108, 100>>

\* The messages of the text items of main.
ProgMsgs == {HelloWorld, Hi, <<>>}

\* Values of rand::random::<usize>().
RandUsize == {0, 19}

\* n bytes 'A'.
Letters(n) == [k \in 1..n |-> 65]

\* The messages handed to the packer alone: up to MaxLen letters, the last
\* byte possibly a zero byte, and the named messages.
PackMsgs ==
    {Letters(n) : n \in 0..MaxLen} \cup
    {Append(Letters(n - 1), 0) : n \in 1..MaxLen} \cup
    {Hi, World, HelloWorld}

RECURSIVE SeqsUpTo(_, _)
\* The sequences over S of length at most n.
SeqsUpTo(S, n) ==
    IF n = 0 THEN {<<>>}
    ELSE LET shorter == SeqsUpTo(S, n - 1)
         IN  shorter \cup {Append(q, x) : q \in {t \in shorter : Len(t) = n - 1}, x \in S}

VARIABLES
    pc,                       \* position in main
    panic_msg,                \* the message of the panic that ended main
    max_push_constant_size,   \* the limit the device was requested with
    push_constant_range,      \* the end of the pipeline layout's range
    font_data,                \* load_fonts: the sheets
    fi,                       \* load_fonts: the sheet of the next iteration
    textures,                 \* load_fonts: the textures created so far
    fonts,                    \* Fonts.fonts
    strings,                  \* main: the text items
    si,                       \* main: the item of the next packer iteration
    text_data,                \* main: the payload being packed
    starts,                   \* the byte position extend_from_slice wrote each item at
    queue,                    \* the operations queued on wgpu::Queue, in order
    frame,                    \* the frame counter
    render_pass,              \* the draw calls recorded in the open render pass
    di,                       \* the item of the next draw
    now,                      \* it.elapsed(), in clock ticks
    frame_times,              \* the VecDeque of frame end times, front first
    fps_reports               \* the FPS reports printed so far

vars == << pc, panic_msg, max_push_constant_size, push_constant_range,
           font_data, fi, textures, fonts, strings, si, text_data, starts,
           queue, frame, render_pass, di, now, frame_times, fps_reports >>

\* The rolling frame-time window and its clock.
timing == << now, frame_times, fps_reports >>

\* all_fonts, the array the items' fonts are drawn from.
all_fonts == [k \in 1..NumFontSizes |-> k - 1]

Init ==
    /\ pc = "request_device"
    /\ panic_msg = ""
    /\ max_push_constant_size = 0
    /\ push_constant_range = 0
    /\ IsFontDataInput(font_data)
    /\ fi = 1
    /\ textures = <<>>
    /\ fonts = <<>>
    /\ strings = <<>>
    /\ si = 1
    /\ text_data = <<>>
    /\ starts = <<>>
    /\ queue = <<>>
    /\ frame = 0
    /\ render_pass = <<>>
    /\ di = 1
    /\ now = 0
    /\ frame_times = <<>>
    /\ fps_reports = <<>>

(***************************************************************************)
(* main, up to load_fonts.                                                 *)
(***************************************************************************)
RequestDevice ==
    /\ pc = "request_device"
    /\ max_push_constant_size' = AsU32(SizeOfPushConstants)
    /\ pc' = "load_fonts"
    /\ UNCHANGED << panic_msg, push_constant_range, font_data, fi, textures,
                    fonts, strings, si, text_data, starts, queue, frame,
                    render_pass, di, timing >>

(***************************************************************************)
(* load_fonts.                                                             *)
(***************************************************************************)
GridOkEither(sheet) == sheet.w % 16 = 0 \/ sheet.h % 16 = 0

\* assert!(dimensions.0 % 16 == 0 && dimensions.1 % 16 == 0, ...)
GridOk(sheet) == sheet.w % 16 = 0 /\ sheet.h % 16 = 0

\* The 8-byte uniform of a font: the two cell sizes as f32.
CellUniform(sheet) == << AsF32(sheet.w \div 16), AsF32(sheet.h \div 16) >>

\* The Font pushed for the k-th sheet; its bind group holds the texture
\* created from that sheet and the uniform.
MakeFont(k, sheet) ==
    [ width      |-> sheet.w \div 16,
      height     |-> sheet.w \div 16,
      bind_group |-> [texture |-> k, uniform |-> CellUniform(sheet)] ]

PushFontFront(v, f) == <<f>> \o v

\* fonts.push(Font { .. })
PushFont(v, f) == Append(v, f)

\* One iteration of `for bytes in font_data` that reaches its end.
LoadFont ==
    /\ pc = "load_fonts"
    /\ fi <= Len(font_data)
    /\ font_data[fi].ok
    /\ GridOk(font_data[fi])
    /\ textures' = Append(textures, [id |-> fi, w |-> font_data[fi].w,
                                     h |-> font_data[fi].h])
    /\ queue' = Append(queue, [op |-> "write_texture", texture |-> fi])
    /\ fonts' = PushFont(fonts, MakeFont(fi, font_data[fi]))
    /\ fi' = fi + 1
    /\ UNCHANGED << pc, panic_msg, max_push_constant_size, push_constant_range,
                    font_data, strings, si, text_data, starts, frame,
                    render_pass, di, timing >>

\* One iteration that panics: the sheet does not decode, or the assertion
\* on its dimensions fails.
LoadFontPanic ==
    /\ pc = "load_fonts"
    /\ fi <= Len(font_data)
    /\ ~(font_data[fi].ok /\ GridOk(font_data[fi]))
    /\ pc' = "panicked"
    /\ panic_msg' = IF font_data[fi].ok THEN "Yucky font file format"
                    ELSE "Failed to load font"
    /\ UNCHANGED << max_push_constant_size, push_constant_range, font_data, fi,
                    textures, fonts, strings, si, text_data, starts, queue,
                    frame, render_pass, di, timing >>

(***************************************************************************)
(* main, from the return of load_fonts to the frame loop.                  *)
(***************************************************************************)
\* load_fonts returns; the buffers, bind groups and the render pipeline are
\* created, and the globals are written.
CreatePipeline ==
    /\ pc = "load_fonts"
    /\ fi > Len(font_data)
    /\ push_constant_range' = AsU32(SizeOfPushConstants)
    /\ queue' = Append(queue, [op |-> "write_buffer", buffer |-> "global",
                               data |-> << AsF32(WIDTH), AsF32(HEIGHT) >>])
    /\ pc' = "build_strings"
    /\ UNCHANGED << panic_msg, max_push_constant_size, font_data, fi, textures,
                    fonts, strings, si, text_data, starts, frame, render_pass,
                    di, timing >>

\* One iteration of `for _ in 0..100`: an item with a random font, its
\* offset still 0, and its message.
BuildString ==
    /\ pc = "build_strings"
    /\ Len(strings) < NumStrings
    /\ \E r \in RandUsize, msg \in ProgMsgs :
          strings' = Append(strings,
              [ font_size |-> all_fonts[(r % Len(all_fonts)) + 1],
                offset    |-> 0,
                msg       |-> msg ])
    /\ pc' = IF Len(strings) + 1 = NumStrings THEN "pack" ELSE "build_strings"
    /\ UNCHANGED << panic_msg, max_push_constant_size, push_constant_range,
                    font_data, fi, textures, fonts, si, text_data, starts,
                    queue, frame, render_pass, di, timing >>

(***************************************************************************)
(* The text payload packer.                                                *)
(***************************************************************************)
PackOffsetInBytes(data) == AsU32(Len(data))

\* pc.offset = text_data.len() as u32 / 4
PackOffset(data) == AsU32(Len(data)) \div 4

RoundUp4Plus4(n) == BitAnd(n + 4, Not3)

\* (n + 3) & !3
RoundUp4(n) == BitAnd(n + 3, Not3)

PadKeepsLength(data) == data

\* text_data.resize((text_data.len() + 3) & !3, 0u8)
Pad(data) == Resize(data, RoundUp4(Len(data)), 0)

\* One iteration of `for (_, pc, msg) in &mut strings`.
PackItem ==
    /\ pc = "pack"
    /\ si <= Len(strings)
    /\ strings' = [strings EXCEPT ![si].offset = PackOffset(text_data)]
    /\ starts' = Append(starts, Len(text_data))
    /\ text_data' = Pad(ExtendFromSlice(text_data, strings[si].msg))
    /\ si' = si + 1
    /\ UNCHANGED << pc, panic_msg, max_push_constant_size, push_constant_range,
                    font_data, fi, textures, fonts, queue, frame, render_pass,
                    di, timing >>

WriteBufferSkipped ==
    /\ pc = "pack"
    /\ si > Len(strings)
    /\ pc' = "frame"
    /\ UNCHANGED << panic_msg, max_push_constant_size, push_constant_range,
                    font_data, fi, textures, fonts, strings, si, text_data,
                    starts, queue, frame, render_pass, di, timing >>

\* The packer's loop ends: queue.write_buffer(&text_buffer, 0, text_data).
WriteBuffer ==
    /\ pc = "pack"
    /\ si > Len(strings)
    /\ queue' = Append(queue, [op |-> "write_buffer", buffer |-> "text",
                               data |-> text_data])
    /\ pc' = "frame"
    /\ UNCHANGED << panic_msg, max_push_constant_size, push_constant_range,
                    font_data, fi, textures, fonts, strings, si, text_data,
                    starts, frame, render_pass, di, timing >>

(***************************************************************************)
(* The frame loop.                                                         *)
(***************************************************************************)
\* surface.get_current_texture() succeeds; the render pass begins.  The
\* loop is followed for `limit` frames.
BeginFrameUpTo(limit) ==
    /\ pc = "frame"
    /\ frame < limit
    /\ render_pass' = <<>>
    /\ di' = 1
    /\ pc' = "draw"
    /\ UNCHANGED << panic_msg, max_push_constant_size, push_constant_range,
                    font_data, fi, textures, fonts, strings, si, text_data,
                    starts, queue, frame, timing >>

BeginFrame == BeginFrameUpTo(MaxFrames)

\* surface.get_current_texture() fails.
AcquireFailsUpTo(limit) ==
    /\ pc = "frame"
    /\ frame < limit
    /\ pc' = "panicked"
    /\ panic_msg' = "Failed to get current texture"
    /\ UNCHANGED << max_push_constant_size, push_constant_range, font_data, fi,
                    textures, fonts, strings, si, text_data, starts, queue,
                    frame, render_pass, di, timing >>

AcquireFails == AcquireFailsUpTo(MaxFrames)

DrawVertexEndPadded(msg) == AsU32(RoundUp4(Len(msg)) * 6)

\* The end of the vertex range of draw(0..(msg.len() * 6) as u32, 0..1).
DrawVertexEnd(msg) == AsU32(Len(msg) * 6)

\* push_constants.cast(): size_of_val bytes of the item's PushConstants.
CastLen == SizeOfPushConstants

\* One iteration of `for (font_size, push_constants, msg) in &strings`.
Draw ==
    /\ pc = "draw"
    /\ di <= Len(strings)
    /\ LET font == VecIndex(fonts, strings[di].font_size)
       IN  IF font.ok
           THEN /\ render_pass' = Append(render_pass,
                       [ bind_group     |-> font.val.bind_group,
                         push_constants |-> [len    |-> CastLen,
                                             offset |-> strings[di].offset],
                         vertices       |-> [start |-> 0,
                                             end   |-> DrawVertexEnd(strings[di].msg)] ])
                /\ di' = di + 1
                /\ UNCHANGED << pc, panic_msg >>
           ELSE /\ pc' = "panicked"
                /\ panic_msg' = "index out of bounds"
                /\ UNCHANGED << render_pass, di >>
    /\ UNCHANGED << max_push_constant_size, push_constant_range, font_data, fi,
                    textures, fonts, strings, si, text_data, starts, queue,
                    frame, timing >>

(***************************************************************************)
(* The rolling window of frame times.                                      *)
(***************************************************************************)
PushFront(q, x) == <<x>> \o q

\* frame_times.push_back(x)
PushBack(q, x) == Append(q, x)

RECURSIVE PopWhileOver(_)
PopWhileOver(q) == IF Len(q) > WindowSize THEN PopWhileOver(Tail(q)) ELSE q

RECURSIVE PopWhileFull(_)
\* while frame_times.len() >= 128 { frame_times.pop_front(); }
PopWhileFull(q) == IF Len(q) >= WindowSize THEN PopWhileFull(Tail(q)) ELSE q

\* What `fps` is computed from at the end of frame f: len - 1 frames over
\* back - front ticks; on an empty queue the subtraction or the unwrap
\* panics.
FpsReport(f, q) ==
    IF Len(q) = 0 THEN [ok |-> FALSE, frame |-> f]
    ELSE [ ok     |-> TRUE,
           frame  |-> f,
           len    |-> Len(q),
           frames |-> Len(q) - 1,
           span   |-> q[Len(q)] - q[1],
           \* the f64 quotient: 0/0 is NaN, n/0 is infinite
           fps    |-> IF q[Len(q)] - q[1] = 0
                      THEN (IF Len(q) - 1 = 0 THEN "NaN" ELSE "inf")
                      ELSE "finite" ]

\* The render pass ends: queue.submit, present, the frame's time is pushed
\* on the window, the FPS is reported every 128th frame, and the next frame
\* begins.  The clock advances by one of `steps` ticks over the frame.
SubmitAdvancing(steps) ==
    /\ pc = "draw"
    /\ di > Len(strings)
    /\ queue' = Append(queue, [op |-> "submit", frame |-> frame,
                               draws |-> render_pass])
    /\ render_pass' = <<>>
    /\ \E dt \in steps :
          /\ now' = now + dt
          /\ frame_times' = PushBack(PopWhileFull(frame_times), now + dt)
    /\ IF frame % ReportEvery = 0
       THEN LET report == FpsReport(frame, frame_times')
            IN  /\ fps_reports' = Append(fps_reports, report)
                /\ IF report.ok
                   THEN /\ pc' = "frame"
                        /\ frame' = frame + 1
                        /\ UNCHANGED panic_msg
                   ELSE /\ pc' = "panicked"
                        /\ panic_msg' = "frame_times is empty"
                        /\ UNCHANGED frame
       ELSE /\ pc' = "frame"
            /\ frame' = frame + 1
            /\ UNCHANGED << panic_msg, fps_reports >>
    /\ UNCHANGED << max_push_constant_size, push_constant_range,
                    font_data, fi, textures, fonts, strings, si, text_data,
                    starts, di >>

\* A frame of the whole program: the clock advances one tick.
Submit == SubmitAdvancing({1})

Next ==
    \/ RequestDevice
    \/ LoadFont
    \/ LoadFontPanic
    \/ CreatePipeline
    \/ BuildString
    \/ PackItem
    \/ WriteBuffer
    \/ BeginFrame
    \/ AcquireFails
    \/ Draw
    \/ Submit

Spec == Init /\ [][Next]_vars

(***************************************************************************)
(* The packer alone, on any messages of PackMsgs: main at the start of the *)
(* packer's loop, the nominal fonts loaded.                                 *)
(***************************************************************************)
InitPack ==
    /\ pc = "pack"
    /\ panic_msg = ""
    /\ max_push_constant_size = AsU32(SizeOfPushConstants)
    /\ push_constant_range = AsU32(SizeOfPushConstants)
    /\ font_data = NominalSheets
    /\ fi = NumFontSizes + 1
    /\ textures = [k \in 1..NumFontSizes |->
                      [id |-> k, w |-> NominalSheets[k].w, h |-> NominalSheets[k].h]]
    /\ fonts = [k \in 1..NumFontSizes |-> MakeFont(k, NominalSheets[k])]
    /\ \E msgs \in SeqsUpTo(PackMsgs, MaxItems) :
          strings = [k \in 1..Len(msgs) |->
                        [font_size |-> all_fonts[1], offset |-> 0, msg |-> msgs[k]]]
    /\ si = 1
    /\ text_data = <<>>
    /\ starts = <<>>
    /\ queue = [k \in 1..NumFontSizes |-> [op |-> "write_texture", texture |-> k]]
               \o << [op |-> "write_buffer", buffer |-> "global",
                      data |-> << AsF32(WIDTH), AsF32(HEIGHT) >>] >>
    /\ frame = 0
    /\ render_pass = <<>>
    /\ di = 1
    /\ now = 0
    /\ frame_times = <<>>
    /\ fps_reports = <<>>

NextPack ==
    \/ PackItem
    \/ WriteBuffer

SpecPack == InitPack /\ [][NextPack]_vars

(***************************************************************************)
(* The frame loop followed for MaxWindowFrames frames: main at the start   *)
(* of the packer's loop, the nominal fonts loaded, every item "Hello       *)
(* world" in the first font.                                                *)
(***************************************************************************)
InitFrames ==
    /\ pc = "pack"
    /\ panic_msg = ""
    /\ max_push_constant_size = AsU32(SizeOfPushConstants)
    /\ push_constant_range = AsU32(SizeOfPushConstants)
    /\ font_data = NominalSheets
    /\ fi = NumFontSizes + 1
    /\ textures = [k \in 1..NumFontSizes |->
                      [id |-> k, w |-> NominalSheets[k].w, h |-> NominalSheets[k].h]]
    /\ fonts = [k \in 1..NumFontSizes |-> MakeFont(k, NominalSheets[k])]
    /\ strings = [k \in 1..NumStrings |->
                     [font_size |-> all_fonts[1], offset |-> 0, msg |-> HelloWorld]]
    /\ si = 1
    /\ text_data = <<>>
    /\ starts = <<>>
    /\ queue = [k \in 1..NumFontSizes |-> [op |-> "write_texture", texture |-> k]]
               \o << [op |-> "write_buffer", buffer |-> "global",
                      data |-> << AsF32(WIDTH), AsF32(HEIGHT) >>] >>
    /\ frame = 0
    /\ render_pass = <<>>
    /\ di = 1
    /\ now = 0
    /\ frame_times = <<>>
    /\ fps_reports = <<>>

BeginFrameLong == BeginFrameUpTo(MaxWindowFrames)

AcquireFailsLong == AcquireFailsUpTo(MaxWindowFrames)

\* A frame whose end the clock may read as the end of the frame before,
\* among the first JitterFrames frames.
SubmitJitter == SubmitAdvancing(IF frame < JitterFrames THEN {0, 1} ELSE {1})

NextFrames ==
    \/ PackItem
    \/ WriteBuffer
    \/ BeginFrameLong
    \/ AcquireFailsLong
    \/ Draw
    \/ SubmitJitter

SpecFrames == InitFrames /\ [][NextFrames]_vars

(***************************************************************************)
(* What the vertex stage computes from a vertex index (shader.wgsl).       *)
(***************************************************************************)
GlyphIndex(i) == i \div 6

CornerIndex(i) == i % 6

\* The payload byte a vertex of a draw with word offset `offset` reads.
PayloadByteAddr(offset, i) == offset * 4 + GlyphIndex(i)

(***************************************************************************)
(* Definitions the properties share.                                       *)
(***************************************************************************)
\* The bytes data[from .. from + n) (0-based), -1 standing for a byte
\* beyond the end of data.
Slice(data, from, n) ==
    [k \in 1..n |-> IF from + k <= Len(data) THEN data[from + k] ELSE -1]

\* The items packed so far.
Packed == 1..Len(starts)

\* The byte range [offset * 4, offset * 4 + length) of item j.
ByteRange(j) ==
    (strings[j].offset * 4)..(strings[j].offset * 4 + Len(strings[j].msg) - 1)

\* Where the padding of item j ends: the start of the next item, or the end
\* of the payload.
PaddingEnd(j) == IF j < Len(starts) THEN starts[j + 1] ELSE Len(text_data)

PackingDone == (pc = "pack" /\ si > Len(strings)) \/ pc = "frame"

\* load_fonts has returned.
LoadDone ==
    \/ pc \in {"build_strings", "pack", "frame", "draw"}
    \/ pc = "panicked" /\ panic_msg = "Failed to get current texture"

\* load_fonts panicked.
LoadPanicked ==
    pc = "panicked" /\ panic_msg \in {"Yucky font file format", "Failed to load font"}

TextWrites ==
    {k \in 1..Len(queue) : queue[k].op = "write_buffer" /\ queue[k].buffer = "text"}

Submits == {k \in 1..Len(queue) : queue[k].op = "submit"}

\* Every list of draw calls: the open render pass and the submitted ones.
DrawLists == {render_pass} \cup {queue[k].draws : k \in Submits}

(***************************************************************************)
(* The text payload packer (SpecPack).                                     *)
(***************************************************************************)
\* C1: for every item packed, the bytes of text_data at
\* [offset * 4, offset * 4 + length) are exactly the item's bytes.
C1_RoundTrip ==
    \A j \in Packed :
        Slice(text_data, strings[j].offset * 4, Len(strings[j].msg)) = strings[j].msg

\* C1 witness: two items packed, the first of a length that needs padding,
\* the second not empty.
C1_Witness ==
    /\ PackingDone
    /\ Len(strings) = 2
    /\ Len(strings[1].msg) % 4 # 0
    /\ Len(strings[2].msg) > 0
    /\ strings[2].offset > 0

\* C2: every item starts at the byte 4 * (its recorded word offset), the
\* recorded offsets are non-negative and non-decreasing in item order, and
\* the byte ranges of two distinct items do not overlap.
C2_AlignedDisjoint ==
    /\ \A j \in Packed :
          /\ strings[j].offset >= 0
          /\ starts[j] = 4 * strings[j].offset
          /\ starts[j] % 4 = 0
    /\ \A j, k \in Packed : j < k => strings[j].offset <= strings[k].offset
    /\ \A j, k \in Packed : j # k => ByteRange(j) \cap ByteRange(k) = {}

\* C2 witness: two non-empty items packed, the second at a later word.
C2_Witness ==
    /\ Len(starts) = 2
    /\ ByteRange(1) # {}
    /\ ByteRange(2) # {}
    /\ strings[1].offset < strings[2].offset

\* C3: after an item of L bytes come exactly (4 - L % 4) % 4 padding bytes,
\* all zero, which is what (len + 3) & !3 rounds to; packing "hi", "world"
\* gives the word offsets 0, 1 and the bytes h,i,0,0,w,o,r,l,d,0,0,0.
C3_Padding ==
    /\ \A j \in Packed :
          LET L   == Len(strings[j].msg)
              pad == (4 - (L % 4)) % 4
          IN  /\ PaddingEnd(j) - (starts[j] + L) = pad
              /\ RoundUp4(starts[j] + L) = starts[j] + L + pad
              /\ \A p \in (starts[j] + L + 1)..PaddingEnd(j) : text_data[p] = 0
    /\ (Len(starts) = 2 /\ strings[1].msg = Hi /\ strings[2].msg = World) =>
          /\ strings[1].offset = 0
          /\ strings[2].offset = 1
          /\ text_data = <<104, 105, 0, 0, 119, 111, 114, 108, 100, 0, 0, 0>>

\* C3 witness: "hi", "world" packed.
C3_Witness ==
    /\ Len(starts) = 2
    /\ strings[1].msg = Hi
    /\ strings[2].msg = World
    /\ Len(text_data) = 12

(***************************************************************************)
(* load_fonts (Spec).                                                      *)
(***************************************************************************)
\* C4: every Font has width = sheet width / 16 and height = sheet height /
\* 16, the two values of its cell-size uniform.
C4_CellSize ==
    \A k \in 1..Len(fonts) :
        /\ fonts[k].width = font_data[k].w \div 16
        /\ fonts[k].height = font_data[k].h \div 16
        /\ fonts[k].bind_group.uniform = << AsF32(fonts[k].width), AsF32(fonts[k].height) >>

\* C5: every Font comes from a sheet whose width and height are multiples
\* of 16; a sheet that is not panics load_fonts before a texture or a Font
\* is made for it, and no frame is ever drawn.
C5_GridChecked ==
    /\ Len(textures) = Len(fonts)
    /\ \A k \in 1..Len(fonts) :
          /\ font_data[k].ok
          /\ font_data[k].w % 16 = 0
          /\ font_data[k].h % 16 = 0
    /\ LoadPanicked =>
          /\ fi <= Len(font_data)
          /\ ~(font_data[fi].ok /\ font_data[fi].w % 16 = 0 /\ font_data[fi].h % 16 = 0)
          /\ Len(fonts) = fi - 1
          /\ \A t \in 1..Len(textures) : textures[t].id # fi
    /\ (\E k \in 1..Len(font_data) :
            ~(font_data[k].ok /\ font_data[k].w % 16 = 0 /\ font_data[k].h % 16 = 0)) =>
          /\ ~LoadDone
          /\ frame = 0
          /\ render_pass = <<>>
          /\ Submits = {}

\* C5 witness: the assertion stopped load_fonts at a sheet whose width is a
\* multiple of 16 and whose height is not, after other sheets were loaded.
C5_Witness ==
    /\ LoadPanicked
    /\ panic_msg = "Yucky font file format"
    /\ font_data[fi].w % 16 = 0
    /\ font_data[fi].h % 16 # 0
    /\ Len(fonts) > 0

(***************************************************************************)
(* Font selection, draws and the queue (Spec).                             *)
(***************************************************************************)
\* C6: once loaded, Fonts.fonts holds one Font per FontSize variant, the
\* k-th made from the k-th sheet; every item's font_size indexes it within
\* bounds and every draw binds the bind group of that sheet; an index
\* beyond the loaded fonts is the bounds-check panic.
C6_FontSelection ==
    /\ LoadDone =>
          /\ Len(fonts) = NumFontSizes
          /\ \A k \in 1..Len(fonts) :
                /\ fonts[k].bind_group.texture = k
                /\ textures[k].id = k
                /\ fonts[k].bind_group.uniform = CellUniform(font_data[k])
    /\ \A j \in 1..Len(strings) :
          /\ strings[j].font_size \in 0..(NumFontSizes - 1)
          /\ VecIndex(fonts, strings[j].font_size).ok
    /\ \A D \in DrawLists : \A j \in 1..Len(D) :
          /\ D[j].bind_group.texture = strings[j].font_size + 1
          /\ D[j].bind_group = fonts[strings[j].font_size + 1].bind_group
    /\ \A idx \in Len(fonts)..(NumFontSizes + 1) : ~VecIndex(fonts, idx).ok
    /\ panic_msg # "index out of bounds"

\* C6 witness: a render pass with the draws of two items of different fonts.
C6_Witness ==
    /\ pc = "draw"
    /\ Len(render_pass) = 2
    /\ strings[1].font_size = 9
    /\ strings[2].font_size = 0

\* The draw call d is the one of item j: vertices 0 .. 6 * length, each
\* vertex addressing a byte of the item, each glyph six times.
DrawOfItem(d, j) ==
    LET n    == Len(strings[j].msg)
        last == d.vertices.end - 1
    IN  /\ d.vertices = [start |-> 0, end |-> 6 * n]
        /\ d.push_constants.offset = strings[j].offset
        /\ \A i \in 0..last :
              LET g == GlyphIndex(i)
                  a == PayloadByteAddr(d.push_constants.offset, i)
              IN  /\ g \in 0..(n - 1)
                  /\ CornerIndex(i) \in 0..5
                  /\ a \in ByteRange(j)
                  /\ a >= starts[j]
                  /\ a < starts[j] + n
                  /\ a < Len(text_data)
                  /\ text_data[a + 1] = strings[j].msg[g + 1]
        /\ \A g \in 0..(n - 1) :
              {i \in (6 * g - 6)..(6 * g + 11) : i \in 0..last /\ GlyphIndex(i) = g}
                  = (6 * g)..(6 * g + 5)
        /\ \A i \in 0..last : GlyphIndex(i) * 6 <= i /\ i <= GlyphIndex(i) * 6 + 5

\* C8: in every frame each item gets exactly one draw call, of the vertices
\* 0 .. 6 * (its byte length); vertex i is corner i % 6 of glyph i / 6, each
\* glyph has six vertices, and the byte it addresses is a byte of the item.
C8_DrawPerItem ==
    /\ pc = "draw" => Len(render_pass) = di - 1
    /\ \A k \in Submits : Len(queue[k].draws) = Len(strings)
    /\ \A j \in 1..Len(strings) :
          \A d \in {D[j] : D \in {E \in DrawLists : j <= Len(E)}} : DrawOfItem(d, j)

\* C8 witness: a submitted frame that drew "Hello world" and then "hi".
C8_Witness ==
    \E k \in Submits :
        /\ Len(queue[k].draws) = 2
        /\ strings[1].msg = HelloWorld
        /\ strings[2].msg = Hi
        /\ queue[k].draws[2].vertices.end = 12

\* C9: the text buffer is written once, before the first submission, with
\* the whole packed payload; every submitted draw carries the offset
\* recorded at packing.
C9_WriteBeforeDraws ==
    /\ Cardinality(TextWrites) <= 1
    /\ pc \in {"frame", "draw"} => Cardinality(TextWrites) = 1
    /\ \A w \in TextWrites :
          /\ queue[w].data = text_data
          /\ Len(starts) = Len(strings)
    /\ \A s \in Submits :
          /\ \E w \in TextWrites : w < s
          /\ \A j \in 1..Len(queue[s].draws) :
                queue[s].draws[j].push_constants.offset = strings[j].offset

\* C9 witness: two frames submitted after the write.
C9_Witness ==
    /\ Cardinality(Submits) = 2
    /\ Cardinality(TextWrites) = 1
    /\ Len(text_data) > 0

\* C10 as stated: PushConstants occupies 32 bytes, the size used for the
\* device limit, the pipeline's range and each draw's upload.
C10_Size32 ==
    /\ pc # "request_device" => max_push_constant_size = 32
    /\ LoadDone => push_constant_range = 32
    /\ \A D \in DrawLists : \A j \in 1..Len(D) : D[j].push_constants.len = 32

\* C10 amended: PushConstants (rgba at byte 0, xy at 16, offset at 24)
\* occupies 28 bytes, the size used for the device limit, the pipeline's
\* range and each draw's upload.
C10_Size28 ==
    /\ FieldsEnd(PushConstantsFields, 1) = 16
    /\ FieldsEnd(PushConstantsFields, 2) = 24
    /\ FieldsEnd(PushConstantsFields, 3) = 28
    /\ pc # "request_device" => max_push_constant_size = 28
    /\ LoadDone => push_constant_range = 28
    /\ \A D \in DrawLists : \A j \in 1..Len(D) : D[j].push_constants.len = 28

\* C10 witness: a draw recorded after the device and the pipeline were made.
C10_Witness ==
    /\ pc = "draw"
    /\ Len(render_pass) > 0
    /\ render_pass[1].push_constants.len = max_push_constant_size
    /\ push_constant_range = max_push_constant_size

(***************************************************************************)
(* The frame-time window (SpecFrames).                                     *)
(***************************************************************************)
\* The frame whose end was the last to push on frame_times.
LastFrame == frame - 1

\* C11: after the push at the end of every frame, frame_times holds
\* min(frame + 1, 128) entries, between 1 and 128, in non-decreasing order
\* with the newest at the back; every FPS report (frame % 128 = 0) is
\* computed from a non-empty queue, over len - 1 >= 0 frames, and the report
\* of frame 0 is computed from a single entry: 0 frames over a 0 time span.
C11_FrameTimeWindow ==
    /\ frame = 0 => frame_times = <<>> /\ fps_reports = <<>>
    /\ frame > 0 =>
          /\ Len(frame_times) =
                (IF LastFrame + 1 < WindowSize THEN LastFrame + 1 ELSE WindowSize)
          /\ Len(frame_times) >= 1
          /\ Len(frame_times) <= WindowSize
          /\ frame_times[Len(frame_times)] = now
    /\ \A i \in 1..(Len(frame_times) - 1) : frame_times[i] <= frame_times[i + 1]
    /\ panic_msg # "frame_times is empty"
    /\ Len(fps_reports) = (frame + ReportEvery - 1) \div ReportEvery
    /\ \A r \in 1..Len(fps_reports) :
          /\ fps_reports[r].ok
          /\ fps_reports[r].frame = (r - 1) * ReportEvery
          /\ fps_reports[r].len >= 1
          /\ fps_reports[r].frames = fps_reports[r].len - 1
          /\ fps_reports[r].frames >= 0
          /\ fps_reports[r].span >= 0
    /\ Len(fps_reports) >= 1 =>
          /\ fps_reports[1].len = 1
          /\ fps_reports[1].frames = 0
          /\ fps_reports[1].span = 0

\* C11 witness: the window has been full and popped, and the report of
\* frame 128 has been made from 128 entries a tick apart.
C11_Witness ==
    /\ frame > WindowSize + 1
    /\ Len(frame_times) = WindowSize
    /\ Len(fps_reports) = 2
    /\ fps_reports[2].frames = WindowSize - 1
    /\ fps_reports[2].span = WindowSize - 1
    /\ frame_times[1] < frame_times[WindowSize]

====
